---------------------------- MODULE Spec2Model ----------------------------
(***************************************************************************)
(* A model of the agent orchestration engine of FitnessTrainerAI           *)
(* (src/app/agent.py): one chat turn of FitnessCoachAgent (coordinator,    *)
(* tool dispatch, synthesis or direct reply) and the keyword mining the    *)
(* tool handlers run over the conversation history.                        *)
(*                                                                         *)
(* Python strings are TLA+ strings; `in`, find, rfind, lower, slicing and  *)
(* json.loads are computed character by character.                         *)
(***************************************************************************)
EXTENDS Integers, Sequences, FiniteSets, TLC

(***************************************************************************)
(* Python string primitives.                                               *)
(***************************************************************************)

\* s[i] for a 1-based index
CharAt(s, i) == SubSeq(s, i, i)

\* Python: s.find(c) for a one-character c; 0-based index, -1 when absent
Find(s, c) ==
    IF \E i \in 1..Len(s) : CharAt(s, i) = c
    THEN (CHOOSE i \in 1..Len(s) :
             /\ CharAt(s, i) = c
             /\ \A j \in 1..(i - 1) : CharAt(s, j) # c) - 1
    ELSE -1

\* Python: s.rfind(c) for a one-character c; 0-based index, -1 when absent
RFind(s, c) ==
    IF \E i \in 1..Len(s) : CharAt(s, i) = c
    THEN (CHOOSE i \in 1..Len(s) :
             /\ CharAt(s, i) = c
             /\ \A j \in (i + 1)..Len(s) : CharAt(s, j) # c) - 1
    ELSE -1

\* Python: s[a:b] for 0 <= a, 0 <= b (0-based, half open)
Slice(s, a, b) == SubSeq(s, a + 1, IF b > Len(s) THEN Len(s) ELSE b)

UpperChars == "ABCDEFGHIJKLMNOPQRSTUVWXYZ"
LowerChars == "abcdefghijklmnopqrstuvwxyz"

\* the lower-case letter of each upper-case letter
LowerOf ==
    [c \in {CharAt(UpperChars, k) : k \in 1..26} |->
        CharAt(LowerChars, CHOOSE k \in 1..26 : CharAt(UpperChars, k) = c)]

LowerChar(c) == IF c \in DOMAIN LowerOf THEN LowerOf[c] ELSE c

\* the characters i..j of s in lower case (halving keeps the pieces short)
RECURSIVE LowerRange(_, _, _)
LowerRange(s, i, j) ==
    IF i > j THEN ""
    ELSE IF i = j THEN LowerChar(CharAt(s, i))
    ELSE LET m == (i + j) \div 2
         IN  LowerRange(s, i, m) \o LowerRange(s, m + 1, j)

LowerFrom(s, i) == LowerRange(s, i, Len(s))

\* the substring test, position by position
Search(s, w) ==
    \E i \in 1..(Len(s) - Len(w) + 1) : SubSeq(s, i, i + Len(w) - 1) = w

\* a list as the set of its elements (Python: set(xs))
ToSet(xs) == {xs[i] : i \in 1..Len(xs)}

(***************************************************************************)
(* The messages the histories of the model are made of, and the words the  *)
(* handlers look for.                                                      *)
(***************************************************************************)
User(c) == [role |-> "user", content |-> c]
Assistant(c) == [role |-> "assistant", content |-> c]

TurnMessages ==
    {User("I don't like running but I love lifting weights"),
     Assistant("Great, here is a plan with squats."),
     User("My knee hurt after squats, I am tired")}

MineMessages ==
    {User("I don't like running but I love lifting weights"),
     User("I like running"),
     User("I DON'T WANT cardio, I prefer cardio"),
     User("I don't like yoga but I want to swim"),
     User("Tired but good progress"),
     User("Great workout, I ran and lifted"),
     User("My knee hurt after squats"),
     Assistant("You like running, great workout"),
     [role |-> "user"]}

Fillers == {User("ok"), Assistant("Keep going!")}

WorkoutWords == <<"workout", "exercise", "ran", "lifted", "trained">>


DistressWords == <<"tired", "hard", "difficult", "struggle", "cant">>
SuccessWords == <<"good", "great", "better", "progress">>


Exercises == <<"squat", "deadlift", "bench", "run", "lunge", "press", "curl", "row">>
PainWords == <<"pain", "hurt", "sore", "injury", "strain", "ache">>


\* Python: s.lower()
Lower(s) == LowerFrom(s, 1)

\* Python: w in s   (substring test)
Contains(s, w) == Search(s, w)

(***************************************************************************)
(* JSON values as json.loads builds them, tagged by Python type.  A dict   *)
(* is the sequence of its (key, value) pairs in document order; a lookup   *)
(* takes the last pair of a key, as a Python dict keeps the last value.    *)
(***************************************************************************)
JStr(x)  == [t |-> "str", s |-> x]
JNum(x)  == [t |-> "int", n |-> x]
JBool(x) == [t |-> "bool", b |-> x]
JNull    == [t |-> "NoneType"]
JList(x) == [t |-> "list", l |-> x]
JObj(x)  == [t |-> "dict", o |-> x]

Pair(key, val) == [k |-> key, v |-> val]

\* Python: d.get(key, default) on a dict built by json.loads
DictGet(d, key, default) ==
    LET hits == {i \in 1..Len(d.o) : d.o[i].k = key}
    IN  IF hits = {} THEN default
        ELSE d.o[CHOOSE i \in hits : \A j \in hits : j <= i].v

(***************************************************************************)
(* json.loads, for the fragment of JSON the model's responses use:         *)
(* objects, arrays, strings without escapes, integers, true, false, null,  *)
(* with whitespace between tokens.  A result is [ok, val, pos]: pos is the *)
(* 1-based position after the value read.                                  *)
(***************************************************************************)
JsonFail == [ok |-> FALSE, val |-> JNull, pos |-> 0]
JsonOk(v, p) == [ok |-> TRUE, val |-> v, pos |-> p]

IsWs(c) == c \in {" ", "\n", "\t", "\r"}
IsDigit(c) == c \in {"0", "1", "2", "3", "4", "5", "6", "7", "8", "9"}
DigitVal(c) == CHOOSE d \in 0..9 : CharAt("0123456789", d + 1) = c

RECURSIVE SkipWs(_, _)
SkipWs(s, i) ==
    IF i <= Len(s) /\ IsWs(CharAt(s, i)) THEN SkipWs(s, i + 1) ELSE i

\* the position of the closing quote of a string opened before i, 0 if none
RECURSIVE StringEnd(_, _)
StringEnd(s, i) ==
    IF i > Len(s) THEN 0
    ELSE IF CharAt(s, i) = "\"" THEN i
    ELSE IF CharAt(s, i) \in {"\\", "\n", "\t", "\r"} THEN 0
    ELSE StringEnd(s, i + 1)

ParseString(s, i) ==
    LET e == StringEnd(s, i + 1)
    IN  IF e = 0 THEN JsonFail ELSE JsonOk(JStr(SubSeq(s, i + 1, e - 1)), e + 1)

RECURSIVE DigitsEnd(_, _)
DigitsEnd(s, i) ==
    IF i <= Len(s) /\ IsDigit(CharAt(s, i)) THEN DigitsEnd(s, i + 1) ELSE i

RECURSIVE DigitsVal(_, _, _, _)
DigitsVal(s, i, e, acc) ==
    IF i >= e THEN acc ELSE DigitsVal(s, i + 1, e, 10 * acc + DigitVal(CharAt(s, i)))

\* an integer: -? (0 | [1-9][0-9]*)
ParseNumber(s, i) ==
    LET neg == CharAt(s, i) = "-"
        b   == IF neg THEN i + 1 ELSE i
        e   == IF b <= Len(s) /\ CharAt(s, b) = "0" THEN b + 1 ELSE DigitsEnd(s, b)
    IN  IF e = b THEN JsonFail
        ELSE JsonOk(JNum((IF neg THEN -1 ELSE 1) * DigitsVal(s, b, e, 0)), e)

ParseLiteral(s, i, word, val) ==
    IF i + Len(word) - 1 <= Len(s) /\ SubSeq(s, i, i + Len(word) - 1) = word
    THEN JsonOk(val, i + Len(word))
    ELSE JsonFail

RECURSIVE ParseValue(_, _), ParseItems(_, _, _), ParseMembers(_, _, _)

\* the value starting at position i (leading whitespace already skipped)
ParseValue(s, i) ==
    IF i > Len(s) THEN JsonFail
    ELSE LET c == CharAt(s, i)
         IN  CASE c = "{"  ->
                   LET j == SkipWs(s, i + 1)
                   IN  IF j <= Len(s) /\ CharAt(s, j) = "}"
                       THEN JsonOk(JObj(<<>>), j + 1)
                       ELSE ParseMembers(s, j, <<>>)
               [] c = "["  ->
                   LET j == SkipWs(s, i + 1)
                   IN  IF j <= Len(s) /\ CharAt(s, j) = "]"
                       THEN JsonOk(JList(<<>>), j + 1)
                       ELSE ParseItems(s, j, <<>>)
               [] c = "\"" -> ParseString(s, i)
               [] c = "t"  -> ParseLiteral(s, i, "true", JBool(TRUE))
               [] c = "f"  -> ParseLiteral(s, i, "false", JBool(FALSE))
               [] c = "n"  -> ParseLiteral(s, i, "null", JNull)
               [] c = "-" \/ IsDigit(c) -> ParseNumber(s, i)
               [] OTHER    -> JsonFail

\* the items of an array from position i on, acc the items read so far
ParseItems(s, i, acc) ==
    LET r == ParseValue(s, i)
    IN  IF ~r.ok THEN JsonFail
        ELSE LET j == SkipWs(s, r.pos)
             IN  IF j > Len(s) THEN JsonFail
                 ELSE IF CharAt(s, j) = "]" THEN JsonOk(JList(Append(acc, r.val)), j + 1)
                 ELSE IF CharAt(s, j) = ","
                      THEN ParseItems(s, SkipWs(s, j + 1), Append(acc, r.val))
                 ELSE JsonFail

\* the members of an object from position i on, acc the pairs read so far
ParseMembers(s, i, acc) ==
    IF i > Len(s) \/ CharAt(s, i) # "\"" THEN JsonFail
    ELSE LET key == ParseString(s, i)
         IN  IF ~key.ok THEN JsonFail
             ELSE LET c == SkipWs(s, key.pos)
                  IN  IF c > Len(s) \/ CharAt(s, c) # ":" THEN JsonFail
                      ELSE LET r == ParseValue(s, SkipWs(s, c + 1))
                           IN  IF ~r.ok THEN JsonFail
                               ELSE LET j  == SkipWs(s, r.pos)
                                        ps == Append(acc, Pair(key.val.s, r.val))
                                    IN  IF j > Len(s) THEN JsonFail
                                        ELSE IF CharAt(s, j) = "}"
                                             THEN JsonOk(JObj(ps), j + 1)
                                        ELSE IF CharAt(s, j) = ","
                                             THEN ParseMembers(s, SkipWs(s, j + 1), ps)
                                        ELSE JsonFail

\* Python: json.loads(s); ok = FALSE stands for json.JSONDecodeError
JsonLoads(s) ==
    LET r == ParseValue(s, SkipWs(s, 1))
    IN  IF r.ok /\ SkipWs(s, r.pos) > Len(s) THEN r ELSE JsonFail

(***************************************************************************)
(* Python values of the profile dict and of a message dict, and dict.get.  *)
(* A dict with string keys is a TLA+ function on the keys it holds; None   *)
(* is JNull, a number JNum, a string JStr.                                 *)
(***************************************************************************)

\* Python: d.get(key, default)
Get(d, key, default) == IF key \in DOMAIN d THEN d[key] ELSE default

\* Python truth value of a profile value (`age if age else 'unknown'`)
Truthy(v) ==
    CASE v.t = "NoneType" -> FALSE
      [] v.t = "int"      -> v.n # 0
      [] v.t = "str"      -> v.s # ""
      [] OTHER            -> TRUE

\* the text an f-string puts for a value
Render(v) ==
    CASE v.t = "NoneType" -> "None"
      [] v.t = "int"      -> ToString(v.n)
      [] v.t = "str"      -> v.s
      [] OTHER            -> "?"

\* Python: h[-n:]
LastN(h, n) == IF Len(h) <= n THEN h ELSE SubSeq(h, Len(h) - n + 1, Len(h))

\* FirstN without the cap: the whole list
FirstN_keeps_all(h, n) == h

\* Python: h[:n]
FirstN(h, n) == IF Len(h) <= n THEN h ELSE SubSeq(h, 1, n)

\* Python: sep.join(parts)
RECURSIVE Join(_, _)
Join(parts, sep) ==
    IF parts = <<>> THEN ""
    ELSE IF Len(parts) = 1 THEN parts[1]
    ELSE parts[1] \o sep \o Join(Tail(parts), sep)

\* Python: any(word in text for word in words)
AnyIn(words, text) == \E i \in 1..Len(words) : Contains(text, words[i])

\* the list [tag] when cond holds, else []: one `if cond: xs.append(tag)`
AppendIf(cond, tag) == IF cond THEN <<tag>> ELSE <<>>

\* a list comprehension / loop body folded over a list of messages
RECURSIVE FlatMap(_, _)
FlatMap(F(_), h) == IF h = <<>> THEN <<>> ELSE F(Head(h)) \o FlatMap(F, Tail(h))

IsUser(msg) == Get(msg, "role", "") = "user"

(***************************************************************************)
(* History mining of the tool handlers.                                    *)
(***************************************************************************)
PrefWindow == 10
MoodWindow == 5
InjuryWindow == 10
MaxClues == 3

\* create_workout_plan: the test that sends a message to the dislike branch
IsNegated(content) ==
    Contains(content, "don't want") \/ Contains(content, "don't like")

\* create_workout_plan: the test of the like branch (the elif)
IsPositive(content) ==
    Contains(content, "like") \/ Contains(content, "prefer") \/ Contains(content, "want to")

\* create_workout_plan: what one message appends to dislikes
MsgDislikes(msg) ==
    IF ~IsUser(msg) THEN <<>>
    ELSE LET content == Lower(Get(msg, "content", ""))
         IN  IF IsNegated(content)
             THEN AppendIf(Contains(content, "lift") \/ Contains(content, "weight"),
                           "weightlifting")
                  \o AppendIf(Contains(content, "run"), "running")
                  \o AppendIf(Contains(content, "cardio"), "cardio")
                  \o AppendIf(Contains(content, "gym"), "gym workouts")
             ELSE <<>>

\* MsgLikes with `if` for the `elif`: the like branch also runs after negation
MsgLikes_no_negation_check(msg) ==
    IF ~IsUser(msg) THEN <<>>
    ELSE LET content == Lower(Get(msg, "content", ""))
         IN  IF IsPositive(content)
             THEN AppendIf(Contains(content, "run") \/ Contains(content, "running"),
                           "running")
                  \o AppendIf(Contains(content, "lift") \/ Contains(content, "weight"),
                              "weightlifting")
                  \o AppendIf(Contains(content, "cardio"), "cardio")
                  \o AppendIf(Contains(content, "yoga"), "yoga")
                  \o AppendIf(Contains(content, "swim"), "swimming")
             ELSE <<>>

\* create_workout_plan: what one message appends to likes
MsgLikes(msg) ==
    IF ~IsUser(msg) THEN <<>>
    ELSE LET content == Lower(Get(msg, "content", ""))
         IN  IF IsNegated(content) THEN <<>>
             ELSE IF IsPositive(content)
             THEN AppendIf(Contains(content, "run") \/ Contains(content, "running"),
                           "running")
                  \o AppendIf(Contains(content, "lift") \/ Contains(content, "weight"),
                              "weightlifting")
                  \o AppendIf(Contains(content, "cardio"), "cardio")
                  \o AppendIf(Contains(content, "yoga"), "yoga")
                  \o AppendIf(Contains(content, "swim"), "swimming")
             ELSE <<>>

\* `", ".join(set(xs)) if xs else placeholder`: a set has no order, so the
\* joined text is kept as the set of its parts
Listing(xs, placeholder) ==
    IF xs = <<>> THEN [text |-> placeholder, parts |-> {}]
    ELSE [text |-> "", parts |-> ToSet(xs)]

\* create_workout_plan: the mined part of the prompt
mine_workout(history) ==
    LET window   == LastN(history, PrefWindow)
        likes    == FlatMap(MsgLikes, window)
        dislikes == FlatMap(MsgDislikes, window)
    IN  [likes |-> likes, dislikes |-> dislikes,
         likes_str |-> Listing(likes, "none detected"),
         dislikes_str |-> Listing(dislikes, "none detected")]

\* MsgMentions without the test of the role
MsgMentions_any_role(msg) ==
    AppendIf(AnyIn(WorkoutWords, Lower(Get(msg, "content", ""))), 1)

\* analyze_progress: what one message adds to workout_mentions
MsgMentions(msg) ==
    IF ~IsUser(msg) THEN <<>>
    ELSE AppendIf(AnyIn(WorkoutWords, Lower(Get(msg, "content", ""))), 1)

MsgClues(msg) ==
    IF ~IsUser(msg) THEN <<>>
    ELSE LET content == Lower(Get(msg, "content", ""))
         IN  AppendIf(Contains(content, "tired") \/ Contains(content, "sore"),
                      "User mentioned physical fatigue (good sign of activity)")
             \o AppendIf(Contains(content, "easier") \/ Contains(content, "better"),
                         "User noted improvement")

\* analyze_progress: the mined part of the prompt
mine_progress(history) ==
    LET workout_mentions == Len(FlatMap(MsgMentions, history))
        progress_clues   == FlatMap(MsgClues, history)
    IN  [workout_mentions |-> workout_mentions,
         progress_clues |-> progress_clues,
         progress_summary |-> ToString(workout_mentions) \o " workout mentions; "
                              \o Join(FirstN(progress_clues, MaxClues), "; "),
         total |-> Len(history)]

MsgUserContent(msg) == IF IsUser(msg) THEN <<Get(msg, "content", "")>> ELSE <<>>

\* give_motivation: the text scanned for sentiment
recent_text(history) ==
    Lower(Join(FlatMap(MsgUserContent, LastN(history, MoodWindow)), " "))

\* Sentiment with the success words tested first
Sentiment_success_first(text) ==
    IF AnyIn(SuccessWords, text) THEN "positive, reinforce success"
    ELSE IF AnyIn(DistressWords, text) THEN "struggling, needs encouragement"
    ELSE "neutral"

\* give_motivation: the sentiment of a text
Sentiment(text) ==
    IF AnyIn(DistressWords, text) THEN "struggling, needs encouragement"
    ELSE IF AnyIn(SuccessWords, text) THEN "positive, reinforce success"
    ELSE "neutral"

\* give_motivation: the mined part of the prompt
mine_motivation(history) ==
    [emotional_context |-> Sentiment(recent_text(history))]

\* the words of a vocabulary a text contains, in vocabulary order
RECURSIVE WordsIn(_, _)
WordsIn(words, text) ==
    IF words = <<>> THEN <<>>
    ELSE AppendIf(Contains(text, Head(words)), Head(words)) \o WordsIn(Tail(words), text)

MsgExercises(msg) ==
    IF ~IsUser(msg) THEN <<>>
    ELSE WordsIn(Exercises, Lower(Get(msg, "content", "")))

MsgPains(msg) ==
    IF ~IsUser(msg) THEN <<>>
    ELSE LET ws == WordsIn(PainWords, Lower(Get(msg, "content", "")))
         IN  [i \in 1..Len(ws) |-> "mentioned '" \o ws[i] \o "'"]

\* injury_prevention: the mined part of the prompt
mine_injury(history) ==
    LET window              == LastN(history, InjuryWindow)
        mentioned_exercises == FlatMap(MsgExercises, window)
        pain_indicators     == FlatMap(MsgPains, window)
    IN  [mentioned_exercises |-> mentioned_exercises,
         pain_indicators |-> pain_indicators,
         exercise_context |-> Listing(mentioned_exercises, "none mentioned yet"),
         pain_context |-> Listing(pain_indicators, "none reported")]

(***************************************************************************)
(* The agent and one call of chat.                                         *)
(***************************************************************************)
VARIABLES
    user_data,             \* self.user_data
    conversation_history,  \* self.conversation_history
    user_message,          \* the argument of chat / of a handler
    pc,                    \* where the call is: "start", "dispatch", "done", "raised"
    response,              \* _coordinator_llm: the raw text of the coordinator call
    coordination,          \* chat: the decision _coordinator_llm returned
    tools_to_use,          \* chat: coordination.get("tools", [])
    idx,                   \* chat: the position of the for loop in tools_to_use
    tool_results,          \* chat: the list of {"tool", "result"} entries
    invoked,               \* the handlers called so far, in call order
    llm_calls,             \* the calls of _call_llm so far, in call order
    final_response,        \* the text the call returned (pc = "done")
    exc                    \* the exception the call raised (pc = "raised")

vars == <<user_data, conversation_history, user_message, pc, response, coordination,
          tools_to_use, idx, tool_results, invoked, llm_calls, final_response, exc>>

\* self.tools: the registered tool names
tools == {"create_workout_plan", "create_meal_plan", "analyze_progress",
          "give_motivation", "calculate_calories", "injury_prevention"}

\* the value _coordinator_llm returns when it could not parse
EmptyDecision ==
    JObj(<<Pair("tools", JList(<<>>)),
           Pair("reasoning", JStr("parsing error")),
           Pair("context_aware", JStr("none"))>>)

NoException == [type |-> "", msg |-> ""]
Exception(type, msg) == [type |-> type, msg |-> msg]

(***************************************************************************)
(* The generation service.  A call returns a text or raises; _call_llm     *)
(* prints the exception and raises it again.                               *)
(***************************************************************************)
LlmErrors == {Exception("APIConnectionError", "Connection error."),
              Exception("APITimeoutError", "Request timed out.")}

LlmOutcomes(texts) ==
    {[ok |-> TRUE, text |-> t, err |-> NoException] : t \in texts}
    \cup {[ok |-> FALSE, text |-> "", err |-> e] : e \in LlmErrors}

\* _call_llm: the record of one call (which prompt, at which temperature x 10,
\* and how the service answered)
call_llm(kind, prompt, temperature, out) ==
    [kind |-> kind, prompt |-> prompt, temperature |-> temperature, ok |-> out.ok]

ContextTruncate == 100

ContextLine(msg) ==
    <<Get(msg, "role", "unknown") \o ": "
      \o Slice(Get(msg, "content", ""), 0, ContextTruncate)>>

\* _get_conversation_context(last_n)
get_conversation_context(history, last_n) ==
    IF history = <<>> THEN "No previous conversation."
    ELSE Join(FlatMap(ContextLine, LastN(history, last_n)), "\n")

\* the profile line of a prompt: {self.user_data.get(key, default)}
Field(data, key, default) == Render(Get(data, key, JStr(default)))

CoordinatorContext == 3
DirectContext == 5

\* _coordinator_llm: the variable parts of its system prompt
coordinator_prompt(data, history) ==
    [age |-> Field(data, "age", "unknown"),
     weight |-> Field(data, "weight", "unknown"),
     height |-> Field(data, "height", "unknown"),
     fitness_goal |-> Field(data, "fitness_goal", "not set"),
     activity_level |-> Field(data, "activity_level", "not set"),
     conversation_context |-> get_conversation_context(history, CoordinatorContext)]

\* parse_coordination with `return {}` as its fallback
parse_coordination_empty_dict(text) ==
    LET start == Find(text, "{")
        end   == RFind(text, "}") + 1
    IN  IF start # -1 /\ end > start
        THEN LET r == JsonLoads(Slice(text, start, end))
             IN  IF r.ok THEN r.val ELSE JObj(<<>>)
        ELSE JObj(<<>>)

\* _coordinator_llm, after the call: the decision read from the response
parse_coordination(text) ==
    LET start == Find(text, "{")
        end   == RFind(text, "}") + 1
    IN  IF start # -1 /\ end > start
        THEN LET r == JsonLoads(Slice(text, start, end))
             IN  IF r.ok THEN r.val ELSE EmptyDecision
        ELSE EmptyDecision

(***************************************************************************)
(* The six tool handlers up to their call of _call_llm: the prompt a       *)
(* handler builds (its profile lines for age, weight, height, goal and     *)
(* activity level, and what it mined), the temperature x 10 it asks for,   *)
(* or the exception building the prompt raises.                            *)
(***************************************************************************)
Built(prompt, temperature) ==
    [raises |-> FALSE, exc |-> NoException, prompt |-> prompt, temperature |-> temperature]
Raises(type, msg) ==
    [raises |-> TRUE, exc |-> Exception(type, msg), prompt |-> <<>>, temperature |-> 0]

create_workout_plan(data, history) ==
    LET mined == mine_workout(history)
    IN  Built([age |-> Field(data, "age", "unknown"),
               weight |-> Field(data, "weight", "unknown"),
               height |-> Field(data, "height", "unknown"),
               fitness_goal |-> Field(data, "fitness_goal", "general fitness"),
               activity_level |-> Field(data, "activity_level", "moderate"),
               likes_str |-> mined.likes_str,
               dislikes_str |-> mined.dislikes_str], 7)

create_meal_plan(data, history) ==
    Built([age |-> Field(data, "age", "unknown"),
           weight |-> Field(data, "weight", "unknown"),
           fitness_goal |-> Field(data, "fitness_goal", "general fitness"),
           activity_level |-> Field(data, "activity_level", "moderate")], 7)

analyze_progress(data, history) ==
    LET mined == mine_progress(history)
    IN  Built([fitness_goal |-> Field(data, "fitness_goal", "general fitness"),
               activity_level |-> Field(data, "activity_level", "moderate"),
               progress_summary |-> mined.progress_summary,
               total |-> mined.total], 7)

give_motivation(data, history) ==
    LET mined == mine_motivation(history)
    IN  Built([fitness_goal |-> Field(data, "fitness_goal", "general fitness"),
               activity_level |-> Field(data, "activity_level", "moderate"),
               emotional_context |-> mined.emotional_context], 8)

InchesPerFoot == 12

calculate_calories(data, history) ==
    LET weight_lb == Get(data, "weight", JNum(0))
        height_ft == Get(data, "height", JNum(0))
        age       == Get(data, "age", JNum(0))
    IN  CASE height_ft.t = "NoneType" ->
               Raises("TypeError", "unsupported operand type(s) for *: 'NoneType' and 'int'")
          [] height_ft.t = "str" ->
               Raises("ValueError", "Unknown format code 'f' for object of type 'str'")
          [] OTHER ->
               Built([age |-> IF Truthy(age) THEN Render(age) ELSE "unknown",
                      weight |-> Render(weight_lb),
                      height |-> Render(height_ft),
                      inches |-> ToString(height_ft.n * InchesPerFoot) \o ".0",
                      fitness_goal |-> Field(data, "fitness_goal", "not specified"),
                      activity_level |-> Field(data, "activity_level", "moderate")], 3)

injury_prevention(data, history) ==
    LET mined == mine_injury(history)
    IN  Built([age |-> Field(data, "age", "unknown"),
               weight |-> Field(data, "weight", "unknown"),
               fitness_goal |-> Field(data, "fitness_goal", "general fitness"),
               activity_level |-> Field(data, "activity_level", "moderate"),
               exercise_context |-> mined.exercise_context,
               pain_context |-> mined.pain_context], 5)

\* self.tools[tool_name]
Handler(tool_name, data, history) ==
    CASE tool_name = "create_workout_plan" -> create_workout_plan(data, history)
      [] tool_name = "create_meal_plan"    -> create_meal_plan(data, history)
      [] tool_name = "analyze_progress"    -> analyze_progress(data, history)
      [] tool_name = "give_motivation"     -> give_motivation(data, history)
      [] tool_name = "calculate_calories"  -> calculate_calories(data, history)
      [] tool_name = "injury_prevention"   -> injury_prevention(data, history)
      [] OTHER -> Raises("KeyError", "'" \o tool_name \o "'")

(***************************************************************************)
(* chat, step by step: the coordinator call, one step per element of       *)
(* tools_to_use, then the synthesis call or the direct reply.              *)
(***************************************************************************)

\* _coordinator_llm(user_message), given how the service answered its call
coordinator_llm(out) ==
    IF out.ok
    THEN [raises |-> FALSE, exc |-> NoException, val |-> parse_coordination(out.text)]
    ELSE [raises |-> TRUE, exc |-> out.err, val |-> JNull]

\* Python: the elements `for tool_name in v` visits, or TypeError
Iterate(v) ==
    CASE v.t = "list" -> [ok |-> TRUE, items |-> v.l]
      [] v.t = "str"  -> [ok |-> TRUE, items |-> [i \in 1..Len(v.s) |-> JStr(CharAt(v.s, i))]]
      [] v.t = "dict" ->
           LET first == {i \in 1..Len(v.o) : \A j \in 1..(i - 1) : v.o[j].k # v.o[i].k}
               nth(n) == CHOOSE i \in first : Cardinality({j \in first : j <= i}) = n
           IN  [ok |-> TRUE, items |-> [n \in 1..Cardinality(first) |-> JStr(v.o[nth(n)].k)]]
      [] OTHER        -> [ok |-> FALSE, items |-> <<>>]

\* Python: can `x in self.tools` hash x
Hashable(v) == v.t \notin {"list", "dict"}

\* is_registered without the membership test
is_registered_any_string(v) == v.t = "str"

\* chat: `tool_name in self.tools`, for a hashable tool_name
is_registered(v) == v.t = "str" /\ v.s \in tools

\* run_tool with `except Exception: pass`: a failed tool leaves no entry
run_tool_drops_failures(name, data, history, out) ==
    LET h == Handler(name, data, history)
    IN  IF h.raises
        THEN [entries |-> <<>>,
              invoked |-> IF h.exc.type = "KeyError" THEN <<>> ELSE <<name>>,
              calls |-> <<>>]
        ELSE [entries |-> IF out.ok THEN <<[tool |-> name, result |-> out.text]>> ELSE <<>>,
              invoked |-> <<name>>,
              calls |-> <<call_llm(name, h.prompt, h.temperature, out)>>]

\* chat: the try statement for one tool name that passed the membership test:
\* the entries appended to tool_results, the handlers entered and the
\* _call_llm calls made
run_tool(name, data, history, out) ==
    LET h == Handler(name, data, history)
    IN  IF h.raises
        THEN [entries |-> <<[tool |-> name, result |-> "Error: " \o h.exc.msg]>>,
              invoked |-> IF h.exc.type = "KeyError" THEN <<>> ELSE <<name>>,
              calls |-> <<>>]
        ELSE [entries |-> <<[tool |-> name,
                            result |-> IF out.ok THEN out.text
                                       ELSE "Error: " \o out.err.msg]>>,
              invoked |-> <<name>>,
              calls |-> <<call_llm(name, h.prompt, h.temperature, out)>>]

OutputBlock(tr) == <<"=== " \o tr.tool \o " ===\n" \o tr.result>>

\* the sequence xs backwards
Reverse(xs) == [i \in 1..Len(xs) |-> xs[Len(xs) + 1 - i]]

\* tool_outputs listing the latest outcome first
tool_outputs_reversed(results) == Join(FlatMap(OutputBlock, Reverse(results)), "\n\n")

\* chat: the text of the tool outputs in the synthesis prompt
tool_outputs(results) == Join(FlatMap(OutputBlock, results), "\n\n")

synthesis_prompt(data, message, results) ==
    [fitness_goal |-> Field(data, "fitness_goal", "general fitness"),
     user_message |-> message,
     tool_outputs |-> tool_outputs(results)]

direct_prompt(data, history) ==
    [age |-> Field(data, "age", "unknown"),
     weight |-> Field(data, "weight", "unknown"),
     height |-> Field(data, "height", "unknown"),
     fitness_goal |-> Field(data, "fitness_goal", "not set yet"),
     activity_level |-> Field(data, "activity_level", "not set yet"),
     conversation_context |-> get_conversation_context(history, DirectContext)]

\* final_call_kind with `if tool_results is not None`
final_call_kind_always_synthesis(results) == "synthesis"

\* chat: which final call it makes once the loop is over
final_call_kind(results) == IF results # <<>> THEN "synthesis" ELSE "direct"

(***************************************************************************)
(* The inputs of a turn.                                                   *)
(***************************************************************************)
FullProfile ==
    [username |-> JStr("sam"), age |-> JNum(30), weight |-> JNum(180),
     height |-> JNum(6), fitness_goal |-> JStr("lose_weight"),
     activity_level |-> JStr("moderate")]

\* get_user_data for a user who registered and never saved a profile
FreshProfile ==
    [username |-> JStr("sam"), age |-> JNull, weight |-> JNull, height |-> JNull,
     fitness_goal |-> JNull, activity_level |-> JNull]

BareProfile == [username |-> JStr("sam")]

UserDataPool == {FullProfile, FreshProfile, BareProfile}

MaxTurnHistory == 2

SeqsUpTo(S, n) == UNION {[1..k -> S] : k \in 0..n}

\* a history longer than the context windows of the coordinator and of the
\* direct reply
LongHistory ==
    <<User("I like running"), Assistant("Keep going!"), User("ok"),
      Assistant("Great, here is a plan with squats."),
      User("My knee hurt after squats, I am tired"), Assistant("Keep going!"),
      User("ok")>>

TurnHistories == SeqsUpTo(TurnMessages, MaxTurnHistory) \cup {LongHistory}

UserMessages == {"How am I doing with my progress?"}

CoordinatorResponses ==
    {"I think no tools are needed here.",
     "{\"tools\": [], \"reasoning\": \"general question\", \"context_aware\": \"none\"}",
     "Sure! {\"tools\": [\"analyze_progress\", \"give_motivation\"], \"reasoning\": \"progress\"}",
     "{\"tools\": [\"create_workout_plan\" \"create_meal_plan\"]}",
     "{\"tools\": [\"calculate_calories\", \"track_sleep\", \"injury_prevention\"]}",
     "{\"tools\": [\"track_sleep\"]}",
     "{\"tools\": [\"create_meal_plan\", \"create_workout_plan\", \"create_meal_plan\"]}",
     "{\"tools\": [\"give_motivation\"]} Use {} for no tools.",
     "{\"tools\": [\"create_workout_plan\"]} Hope this helps :}",
     "{\"tools\": [\"give_motivation\"",
     "} no tools {",
     "{\"tools\": null}",
     "{\"reasoning\": \"just chatting\"}",
     "{\"tools\": \"give_motivation\"}",
     "{\"tools\": [7, \"injury_prevention\"]}",
     "{\"tools\": [[\"give_motivation\"]]}",
     "{\"tools\": [\"give_motivation\", {\"name\": \"create_meal_plan\"}]}"}

HandlerTexts == {"Here is what I suggest."}
FinalTexts == {"You are doing well! What would you like to do next?"}

(***************************************************************************)
(* The state after FitnessCoachAgent(user_data, history) is built and      *)
(* chat(user_message) is entered.                                          *)
(***************************************************************************)
Fresh(data, history, message) ==
    /\ user_data = data
    /\ conversation_history = history
    /\ user_message = message
    /\ pc = "start"
    /\ response = ""
    /\ coordination = JNull
    /\ tools_to_use = JNull
    /\ idx = 1
    /\ tool_results = <<>>
    /\ invoked = <<>>
    /\ llm_calls = <<>>
    /\ final_response = ""
    /\ exc = NoException

Init ==
    \E data \in UserDataPool, history \in TurnHistories, message \in UserMessages :
        Fresh(data, history, message)

\* ReadOnly with chat appending the user's message to the history
ReadOnly_appends_message ==
    /\ conversation_history' = Append(conversation_history, User(user_message))
    /\ UNCHANGED user_data

\* chat and the handlers only read self.user_data and
\* self.conversation_history: every write is to a local list
ReadOnly == UNCHANGED <<user_data, conversation_history>>

\* chat, lines 468-470: the coordinator call and the read of its tool list
Coordinate ==
    /\ pc = "start"
    /\ \E out \in LlmOutcomes(CoordinatorResponses) :
         LET r == coordinator_llm(out)
         IN  /\ llm_calls' = Append(llm_calls,
                    call_llm("coordinator",
                             coordinator_prompt(user_data, conversation_history), 2, out))
             /\ response' = out.text
             /\ IF r.raises
                THEN /\ pc' = "raised"
                     /\ exc' = r.exc
                     /\ UNCHANGED <<coordination, tools_to_use>>
                ELSE /\ pc' = "dispatch"
                     /\ coordination' = r.val
                     /\ tools_to_use' = DictGet(r.val, "tools", JList(<<>>))
                     /\ UNCHANGED exc
    /\ ReadOnly
    /\ UNCHANGED <<user_message, idx, tool_results, invoked, final_response>>

\* chat, line 474: the for statement over a value that cannot be iterated
IterationError ==
    /\ pc = "dispatch"
    /\ ~Iterate(tools_to_use).ok
    /\ pc' = "raised"
    /\ exc' = Exception("TypeError", "'" \o tools_to_use.t \o "' object is not iterable")
    /\ ReadOnly
    /\ UNCHANGED <<user_message, response, coordination, tools_to_use, idx, tool_results,
                   invoked, llm_calls, final_response>>

\* the element the loop is at
InLoop ==
    /\ pc = "dispatch"
    /\ Iterate(tools_to_use).ok
    /\ idx <= Len(Iterate(tools_to_use).items)

tool_name == Iterate(tools_to_use).items[idx]

\* chat, line 475: `tool_name in self.tools` on a list or a dict
UnhashableTool ==
    /\ InLoop
    /\ ~Hashable(tool_name)
    /\ pc' = "raised"
    /\ exc' = Exception("TypeError", "unhashable type: '" \o tool_name.t \o "'")
    /\ ReadOnly
    /\ UNCHANGED <<user_message, response, coordination, tools_to_use, idx, tool_results,
                   invoked, llm_calls, final_response>>

\* chat, lines 474-475: an element that is no key of self.tools
SkipTool ==
    /\ InLoop
    /\ Hashable(tool_name)
    /\ ~is_registered(tool_name)
    /\ idx' = idx + 1
    /\ ReadOnly
    /\ UNCHANGED <<user_message, pc, response, coordination, tools_to_use, tool_results,
                   invoked, llm_calls, final_response, exc>>

\* chat, lines 475-487: a registered tool is run and its outcome recorded
RunTool ==
    /\ InLoop
    /\ Hashable(tool_name)
    /\ is_registered(tool_name)
    /\ \E out \in LlmOutcomes(HandlerTexts) :
         LET r == run_tool(tool_name.s, user_data, conversation_history, out)
         IN  /\ tool_results' = tool_results \o r.entries
             /\ invoked' = invoked \o r.invoked
             /\ llm_calls' = llm_calls \o r.calls
    /\ idx' = idx + 1
    /\ ReadOnly
    /\ UNCHANGED <<user_message, pc, response, coordination, tools_to_use, final_response, exc>>

LoopDone ==
    /\ pc = "dispatch"
    /\ Iterate(tools_to_use).ok
    /\ idx > Len(Iterate(tools_to_use).items)

\* Finish with the failure of the call turned into the reply text
Finish_returns_error_text(out) ==
    /\ pc' = "done"
    /\ final_response' = IF out.ok THEN out.text ELSE "Error: " \o out.err.msg
    /\ UNCHANGED exc

\* how a final call ends the turn
Finish(out) ==
    IF out.ok
    THEN /\ pc' = "done"
         /\ final_response' = out.text
         /\ UNCHANGED exc
    ELSE /\ pc' = "raised"
         /\ exc' = out.err
         /\ UNCHANGED final_response

\* chat, lines 490-512: the synthesis of the tool outputs
Synthesize ==
    /\ LoopDone
    /\ final_call_kind(tool_results) = "synthesis"
    /\ \E out \in LlmOutcomes(FinalTexts) :
         /\ llm_calls' = Append(llm_calls,
                call_llm("synthesis",
                         synthesis_prompt(user_data, user_message, tool_results), 7, out))
         /\ Finish(out)
    /\ ReadOnly
    /\ UNCHANGED <<user_message, response, coordination, tools_to_use, idx, tool_results, invoked>>

\* chat, lines 514-538: the direct conversational reply
DirectReply ==
    /\ LoopDone
    /\ final_call_kind(tool_results) = "direct"
    /\ \E out \in LlmOutcomes(FinalTexts) :
         /\ llm_calls' = Append(llm_calls,
                call_llm("direct", direct_prompt(user_data, conversation_history), 7, out))
         /\ Finish(out)
    /\ ReadOnly
    /\ UNCHANGED <<user_message, response, coordination, tools_to_use, idx, tool_results, invoked>>

Next ==
    \/ Coordinate
    \/ IterationError
    \/ UnhashableTool
    \/ SkipTool
    \/ RunTool
    \/ Synthesize
    \/ DirectReply

Spec == Init /\ [][Next]_vars

(***************************************************************************)
(* The handlers called on their own, over richer histories: a handler is a *)
(* public method of the agent (self.tools[name](user_message)).  A history *)
(* here is a short list of messages, or one with a run of filler messages  *)
(* after its first message, long enough to push it out of a window.        *)
(***************************************************************************)
MaxMineHistory == 2

\* how many fillers: one less than, exactly and one more than a window
FillCounts ==
    {MoodWindow - 1, MoodWindow, MoodWindow + 1,
     PrefWindow - 1, PrefWindow, PrefWindow + 1}

Repeat(msg, k) == [i \in 1..k |-> msg]

\* a run of fillers alone, or a message, a run of fillers and at most one
\* more message
PaddedHistories ==
    {Repeat(f, k) : f \in Fillers, k \in FillCounts}
    \cup {<<m>> \o Repeat(f, k) \o t :
            m \in MineMessages, f \in Fillers, k \in FillCounts,
            t \in {<<>>} \cup {<<n>> : n \in MineMessages}}

\* histories for the progress analysis: an assistant message with a workout
\* word, then the same report of the user, with three workout words, a
\* fatigue word and an improvement word, up to MaxClues times
ProgressReport == User("Sore but the workout felt easier, I ran and lifted")

ProgressHistories ==
    {<<Assistant("You like running, great workout")>> \o Repeat(ProgressReport, k) :
        k \in 1..MaxClues}

MineHistories ==
    SeqsUpTo(MineMessages, MaxMineHistory) \cup PaddedHistories \cup ProgressHistories

InitMine ==
    \E history \in MineHistories, message \in UserMessages :
        Fresh(FullProfile, history, message)

\* self.tools[name](user_message), called on its own
CallHandler ==
    /\ pc = "start"
    /\ \E name \in tools :
         LET h == Handler(name, user_data, conversation_history)
         IN  /\ invoked' = <<name>>
             /\ IF h.raises
                THEN /\ pc' = "raised"
                     /\ exc' = h.exc
                     /\ UNCHANGED <<llm_calls, final_response>>
                ELSE \E out \in LlmOutcomes(HandlerTexts) :
                        /\ llm_calls' = <<call_llm(name, h.prompt, h.temperature, out)>>
                        /\ Finish(out)
    /\ ReadOnly
    /\ UNCHANGED <<user_message, response, coordination, tools_to_use, idx, tool_results>>

NextMine == CallHandler

SpecMine == InitMine /\ [][NextMine]_vars

(***************************************************************************)
(* Properties of a chat turn (specification Spec).                         *)
(***************************************************************************)
HasPrefix(s, p) == Len(s) >= Len(p) /\ SubSeq(s, 1, Len(p)) = p

\* the six identifiers the registry is documented to hold
RegisteredIds ==
    {"create_workout_plan", "create_meal_plan", "analyze_progress",
     "give_motivation", "calculate_calories", "injury_prevention"}

IsRegisteredId(item) == item.t = "str" /\ item.s \in RegisteredIds

CoordinatorAnswered == llm_calls # <<>> /\ llm_calls[1].ok
CoordinatorFailed == llm_calls # <<>> /\ ~llm_calls[1].ok
LastCall == llm_calls[Len(llm_calls)]

\* the elements of the coordinator's tool list, when it is one that can be walked
Listed == IF Iterate(tools_to_use).ok THEN Iterate(tools_to_use).items ELSE <<>>

\* the registered identifiers of the coordinator's list, in its order
Selected == SelectSeq(Listed, IsRegisteredId)

\* the for loop of chat ran to its end
LoopCompleted ==
    \/ pc = "done"
    \/ pc = "raised" /\ LastCall.kind \in {"synthesis", "direct"}
    \/ pc = "dispatch" /\ Iterate(tools_to_use).ok /\ idx > Len(Listed)

\* the response holds no "{" followed later by a "}"
NoJsonObject(text) == Find(text, "{") = -1 \/ RFind(text, "}") < Find(text, "{")

\* the text from the first "{" to the last "}"
BraceSpan(text) == Slice(text, Find(text, "{"), RFind(text, "}") + 1)

Malformed(text) == NoJsonObject(text) \/ ~JsonLoads(BraceSpan(text)).ok

\* C1: a coordinator response with no JSON object, or whose text between the
\* braces does not parse, gives exactly the empty decision; no tool runs, the
\* direct reply is the call that follows, and the turn returns that call's
\* text whenever that call succeeds (it raises only when that call fails).
C1_MalformedDegrades ==
    (CoordinatorAnswered /\ Malformed(response)) =>
        /\ coordination = EmptyDecision
        /\ invoked = <<>>
        /\ tool_results = <<>>
        /\ pc = "dispatch" => ENABLED DirectReply /\ ~ENABLED Synthesize
        /\ pc = "done" =>
             LastCall.kind = "direct" /\ LastCall.ok /\ final_response \in FinalTexts
        /\ pc = "raised" => LastCall.kind = "direct" /\ ~LastCall.ok

\* C1 witness: a response with braces around text that does not parse, and the
\* turn returned a reply
C1_Witness ==
    /\ pc = "done"
    /\ CoordinatorAnswered
    /\ ~NoJsonObject(response)
    /\ Malformed(response)
    /\ coordination = EmptyDecision
    /\ final_response # ""

\* C2: when the generation service fails on the coordinator call, the turn is
\* not failed: the decision is the empty decision and chat does not raise.
C2_CoordinatorFailureDegrades ==
    CoordinatorFailed => (pc # "raised" /\ coordination = EmptyDecision)

\* C3: every handler invoked, every outcome entry and every generation call
\* of a tool is of one of the six registered identifiers; an identifier of the
\* coordinator's list that is not registered is never invoked, gets no
\* outcome entry and has no block in the synthesis prompt.
C3_UnknownToolsNeverRun ==
    /\ \A i \in 1..Len(invoked) : invoked[i] \in RegisteredIds
    /\ \A i \in 1..Len(tool_results) : tool_results[i].tool \in RegisteredIds
    /\ \A i \in 1..Len(llm_calls) :
         llm_calls[i].kind \in RegisteredIds \cup {"coordinator", "synthesis", "direct"}
    /\ \A k \in 1..Len(Listed) :
         (Listed[k].t = "str" /\ Listed[k].s \notin RegisteredIds) =>
            /\ \A i \in 1..Len(invoked) : invoked[i] # Listed[k].s
            /\ \A i \in 1..Len(tool_results) : tool_results[i].tool # Listed[k].s
            /\ \A i \in 1..Len(llm_calls) :
                 /\ llm_calls[i].kind # Listed[k].s
                 /\ llm_calls[i].kind = "synthesis" =>
                      ~Contains(llm_calls[i].prompt.tool_outputs,
                                "=== " \o Listed[k].s \o " ===")

\* C3 witness: a list with an unknown identifier between two registered ones
\* went through dispatch and synthesis
C3_Witness ==
    /\ pc = "done"
    /\ LastCall.kind = "synthesis"
    /\ \E k \in 1..Len(Listed) :
         /\ Listed[k].t = "str" /\ Listed[k].s \notin RegisteredIds
         /\ \E i \in 1..(k - 1) : IsRegisteredId(Listed[i])
         /\ \E j \in (k + 1)..Len(Listed) : IsRegisteredId(Listed[j])
    /\ Len(tool_results) = 2

IsErrorEntry(entry) == HasPrefix(entry.result, "Error: ")

IsToolCall(call) == call.kind \in RegisteredIds

ErrorEntries == {i \in 1..Len(tool_results) : IsErrorEntry(tool_results[i])}

\* the handler runs that failed: a generation call of a tool that failed, or
\* a handler that raised while building its prompt
FailedToolCalls ==
    LET calls == SelectSeq(llm_calls, IsToolCall)
    IN  {j \in 1..Len(calls) : ~calls[j].ok}

RaisingRuns ==
    {i \in 1..Len(invoked) : Handler(invoked[i], user_data, conversation_history).raises}

\* C4: there is one outcome entry per handler run, in run order; an entry is
\* an "Error: ..." entry exactly for the runs that failed; a failure stops
\* neither the later selected handlers (once the loop is over every selected
\* registered tool was run) nor the synthesis call; with two selected tools
\* of which exactly one failed the list has length 2 and one error entry.
C4_DispatcherIsolation ==
    /\ Len(tool_results) = Len(invoked)
    /\ \A i \in 1..Len(tool_results) :
         /\ tool_results[i].tool = invoked[i]
         /\ IsErrorEntry(tool_results[i]) =>
              \/ i \in RaisingRuns
              \/ \E j \in 1..Len(llm_calls) :
                    llm_calls[j].kind = invoked[i] /\ ~llm_calls[j].ok
         /\ ~IsErrorEntry(tool_results[i]) =>
              /\ tool_results[i].result \in HandlerTexts
              /\ \E j \in 1..Len(llm_calls) :
                    llm_calls[j].kind = invoked[i] /\ llm_calls[j].ok
    /\ Cardinality(ErrorEntries) = Cardinality(FailedToolCalls) + Cardinality(RaisingRuns)
    /\ LoopCompleted =>
         /\ Len(invoked) = Len(Selected)
         /\ \A i \in 1..Len(invoked) : invoked[i] = Selected[i].s
    /\ (pc = "dispatch" /\ LoopCompleted /\ tool_results # <<>>) => ENABLED Synthesize
    /\ (pc \in {"done", "raised"} /\ LoopCompleted /\ tool_results # <<>>) =>
         LastCall.kind = "synthesis"
    /\ (LoopCompleted /\ Len(Selected) = 2
        /\ Cardinality(FailedToolCalls) + Cardinality(RaisingRuns) = 1) =>
         Len(tool_results) = 2 /\ Cardinality(ErrorEntries) = 1

\* C4 witness: of two selected tools the first failed, the second was still
\* run and succeeded, and the synthesis call returned the reply
C4_Witness ==
    /\ pc = "done"
    /\ LastCall.kind = "synthesis"
    /\ Len(Selected) = 2
    /\ Len(tool_results) = 2
    /\ IsErrorEntry(tool_results[1])
    /\ ~IsErrorEntry(tool_results[2])

\* the last five messages of the history as "role: content" lines
LastFiveExcerpt ==
    LET h    == conversation_history
        from == IF Len(h) > 5 THEN Len(h) - 4 ELSE 1
    IN  IF h = <<>> THEN "No previous conversation."
        ELSE Join([i \in 1..(Len(h) - from + 1) |->
                      h[from + i - 1].role \o ": " \o h[from + i - 1].content], "\n")

\* C5: when the decision's tool list is empty no handler is invoked, no tool
\* or synthesis call is ever made, and the one call after the coordinator's
\* is the direct conversational call, built from the profile and the excerpt
\* of the last five messages.
C5_ZeroToolsDirectReply ==
    (CoordinatorAnswered /\ tools_to_use = JList(<<>>)) =>
        /\ invoked = <<>>
        /\ tool_results = <<>>
        /\ \A i \in 1..Len(llm_calls) : llm_calls[i].kind \in {"coordinator", "direct"}
        /\ pc = "dispatch" => ENABLED DirectReply /\ ~ENABLED Synthesize
        /\ pc \in {"done", "raised"} =>
             /\ Len(llm_calls) = 2
             /\ LastCall.kind = "direct"
             /\ LastCall.prompt.conversation_context = LastFiveExcerpt
             /\ LastCall.prompt.fitness_goal = Field(user_data, "fitness_goal", "not set yet")
        /\ pc = "done" => final_response \in FinalTexts

\* C5 witness: a parsed decision with an empty tool list, over a history of
\* more than five messages, answered by the direct call
C5_Witness ==
    /\ pc = "done"
    /\ coordination # EmptyDecision
    /\ tools_to_use = JList(<<>>)
    /\ Len(conversation_history) > 5
    /\ LastCall.kind = "direct"

\* the block of the synthesis prompt for one outcome
Block(name, result) == "=== " \o name \o " ===\n" \o result

\* C10: the outcomes are, in order, one per registered identifier of the
\* coordinator's list, in the order of that list, each a result text or an
\* error text; the synthesis prompt lists exactly these blocks in that order.
C10_PresentationOrder ==
    /\ Len(tool_results) <= Len(Selected)
    /\ \A i \in 1..Len(tool_results) :
         /\ tool_results[i].tool = Selected[i].s
         /\ tool_results[i].result \in HandlerTexts \/ IsErrorEntry(tool_results[i])
    /\ \A c \in 1..Len(llm_calls) :
         llm_calls[c].kind = "synthesis" =>
            /\ Len(tool_results) = Len(Selected)
            /\ llm_calls[c].prompt.tool_outputs =
                 Join([i \in 1..Len(Selected) |->
                          Block(Selected[i].s, tool_results[i].result)], "\n\n")

\* C10 witness: three outcomes, the middle one an error, reached synthesis
C10_Witness ==
    /\ pc = "done"
    /\ LastCall.kind = "synthesis"
    /\ Len(tool_results) = 3
    /\ ~IsErrorEntry(tool_results[1])
    /\ IsErrorEntry(tool_results[2])
    /\ ~IsErrorEntry(tool_results[3])
    /\ tool_results[1].tool # tool_results[2].tool

(***************************************************************************)
(* Properties of the mining of the handlers (specification SpecMine).      *)
(***************************************************************************)

\* the handler `name` was called and reached its generation call
Prompted(name) == invoked = <<name>> /\ llm_calls # <<>>

\* the prompt the handler built
Prompt == llm_calls[1].prompt

TextOf(msg) == Lower(IF "content" \in DOMAIN msg THEN msg.content ELSE "")
ByUser(msg) == "role" \in DOMAIN msg /\ msg.role = "user"

SaysNo(text) == Contains(text, "don't want") \/ Contains(text, "don't like")
SaysYes(text) == Contains(text, "like") \/ Contains(text, "prefer") \/ Contains(text, "want to")

\* the activity keywords of the positive table and their tags
LikeKeywords ==
    {<<"run", "running">>, <<"lift", "weightlifting">>, <<"weight", "weightlifting">>,
     <<"cardio", "cardio">>, <<"yoga", "yoga">>, <<"swim", "swimming">>}

\* the activity keywords of the negation table and their tags
DislikeKeywords ==
    {<<"lift", "weightlifting">>, <<"weight", "weightlifting">>, <<"run", "running">>,
     <<"cardio", "cardio">>, <<"gym", "gym workouts">>}

\* the last ten messages of the history
LastTen ==
    LET h == conversation_history
    IN  IF Len(h) > 10 THEN SubSeq(h, Len(h) - 9, Len(h)) ELSE h

\* message i of the window holds a negation phrase, a positive-preference
\* phrase and the keyword
NegatedMention(i, keyword) ==
    /\ ByUser(LastTen[i])
    /\ SaysNo(TextOf(LastTen[i]))
    /\ SaysYes(TextOf(LastTen[i]))
    /\ Contains(TextOf(LastTen[i]), keyword)

\* message j of the window states a liking of the tag without any negation
PlainLiking(j, tag) ==
    /\ ByUser(LastTen[j])
    /\ ~SaysNo(TextOf(LastTen[j]))
    /\ SaysYes(TextOf(LastTen[j]))
    /\ \E kw \in LikeKeywords : kw[2] = tag /\ Contains(TextOf(LastTen[j]), kw[1])

\* C6: a user message of the window with a negation phrase, a positive phrase
\* and an activity keyword gives the dislike tag of the keyword (when the
\* negation table has the keyword) and never its like tag: the like tag is in
\* the prompt only when another message, without negation, states the liking.
C6_NegationPrecedence ==
    Prompted("create_workout_plan") =>
        \A i \in 1..Len(LastTen) :
            /\ \A kw \in DislikeKeywords :
                 NegatedMention(i, kw[1]) => kw[2] \in Prompt.dislikes_str.parts
            /\ \A kw \in LikeKeywords :
                 (NegatedMention(i, kw[1]) /\ kw[2] \in Prompt.likes_str.parts) =>
                    \E j \in 1..Len(LastTen) : PlainLiking(j, kw[2])

\* C6 witness: the one message of the history says "DON'T WANT cardio" and
\* "prefer cardio"; the prompt has cardio as a dislike and no likes
C6_Witness ==
    /\ Prompted("create_workout_plan")
    /\ Len(conversation_history) = 1
    /\ NegatedMention(1, "cardio")
    /\ Contains(TextOf(LastTen[1]), "prefer")
    /\ Prompt.dislikes_str.parts = {"cardio"}
    /\ Prompt.likes_str.text = "none detected"

\* C7: mining the history whose only message is the user's "I don't like
\* running but I love lifting weights" gives dislikes {running} and likes
\* {weightlifting}.
C7_MixedPreferenceScenario ==
    (/\ Prompted("create_workout_plan")
     /\ conversation_history = <<User("I don't like running but I love lifting weights")>>)
    => (/\ Prompt.dislikes_str.parts = {"running"}
        /\ Prompt.likes_str.parts = {"weightlifting"})

\* the text give_motivation scans: the contents of the user messages among
\* the last five, joined by spaces, in lower case
ScannedText == recent_text(conversation_history)

HasDistress(text) ==
    \E w \in {"tired", "hard", "difficult", "struggle", "cant"} : Contains(text, w)
HasSuccess(text) ==
    \E w \in {"good", "great", "better", "progress"} : Contains(text, w)

Struggling == "struggling, needs encouragement"
Positive == "positive, reinforce success"

\* C8: the sentiment in the motivation prompt is the struggling one whenever
\* the scanned text holds a distress word, whatever success words it holds;
\* the positive one exactly when it holds a success word and no distress
\* word; and "neutral" otherwise.
C8_SentimentPrecedence ==
    Prompted("give_motivation") =>
        /\ HasDistress(ScannedText) => Prompt.emotional_context = Struggling
        /\ Prompt.emotional_context = Positive <=>
              (HasSuccess(ScannedText) /\ ~HasDistress(ScannedText))
        /\ (~HasDistress(ScannedText) /\ ~HasSuccess(ScannedText)) =>
              Prompt.emotional_context = "neutral"

\* C8 witness: the scanned text holds a distress and a success word and the
\* prompt says struggling
C8_Witness ==
    /\ Prompted("give_motivation")
    /\ HasDistress(ScannedText)
    /\ HasSuccess(ScannedText)
    /\ Prompt.emotional_context = Struggling

\* every word or phrase the handlers look for
MinedWords ==
    {"don't want", "don't like", "lift", "weight", "run", "cardio", "gym", "like",
     "prefer", "want to", "running", "yoga", "swim",
     "workout", "exercise", "ran", "lifted", "trained", "tired", "sore", "easier",
     "better", "hard", "difficult", "struggle", "cant", "good", "great", "progress",
     "squat", "deadlift", "bench", "lunge", "press", "curl", "row",
     "pain", "hurt", "injury", "strain", "ache"}

\* no user message of the history holds a word the handlers look for
NoKeywordMatch ==
    \A i \in 1..Len(conversation_history) :
        ByUser(conversation_history[i]) =>
            \A w \in MinedWords : ~Contains(TextOf(conversation_history[i]), w)

\* C9: a handler called on any history builds its prompt and reaches its
\* generation call (it raises only what that call raises); on the empty
\* history and on a history without keyword match the prompts hold the
\* "none ..." placeholders, the sentiment "neutral" and 0 workout mentions.
C9_MiningTotal ==
    /\ pc # "start" =>
         /\ Len(llm_calls) = 1
         /\ llm_calls[1].kind = invoked[1]
         /\ pc = "raised" => (exc \in LlmErrors /\ ~llm_calls[1].ok)
    /\ (pc # "start" /\ (conversation_history = <<>> \/ NoKeywordMatch)) =>
         /\ Prompted("create_workout_plan") =>
              /\ Prompt.likes_str = [text |-> "none detected", parts |-> {}]
              /\ Prompt.dislikes_str = [text |-> "none detected", parts |-> {}]
         /\ Prompted("injury_prevention") =>
              /\ Prompt.exercise_context = [text |-> "none mentioned yet", parts |-> {}]
              /\ Prompt.pain_context = [text |-> "none reported", parts |-> {}]
         /\ Prompted("give_motivation") => Prompt.emotional_context = "neutral"
         /\ Prompted("analyze_progress") =>
              /\ Prompt.progress_summary = "0 workout mentions; "
              /\ Prompt.total = Len(conversation_history)

\* C9 witness: progress analysis returned over a history of more than ten
\* messages of both roles, none of the user's with a keyword
C9_Witness ==
    /\ pc = "done"
    /\ Prompted("analyze_progress")
    /\ Len(conversation_history) > 10
    /\ \E i \in 1..Len(conversation_history) : ~ByUser(conversation_history[i])
    /\ \E i \in 1..Len(conversation_history) : ByUser(conversation_history[i])
    /\ NoKeywordMatch
    /\ Prompt.progress_summary = "0 workout mentions; "

(***************************************************************************)
(* Further properties of a chat turn (specification Spec).                 *)
(***************************************************************************)

\* C11: a registered identifier the coordinator's list names more than once
\* is kept once: within a turn no handler is invoked twice and no two
\* outcome entries are of the same tool identifier.
C11_DuplicatesRemoved ==
    /\ \A i, j \in 1..Len(invoked) : i # j => invoked[i] # invoked[j]
    /\ \A i, j \in 1..Len(tool_results) : i # j => tool_results[i].tool # tool_results[j].tool


\* the last generation call was the final one of the turn and it failed
FinalCallFailed ==
    /\ llm_calls # <<>>
    /\ LastCall.kind \in {"synthesis", "direct"}
    /\ ~LastCall.ok

\* C12: when the generation service fails on the final call of a turn (the
\* synthesis call or the direct call) chat returns nothing: the turn ends by
\* raising the service's exception and no reply text was produced.
C12_FinalFailureIsFatal ==
    FinalCallFailed =>
        /\ pc = "raised"
        /\ exc \in LlmErrors
        /\ final_response = ""

\* C12 witness: two tools ran and succeeded, then the synthesis call failed
C12_Witness ==
    /\ FinalCallFailed
    /\ LastCall.kind = "synthesis"
    /\ Len(tool_results) = 2
    /\ \A i \in 1..2 : ~IsErrorEntry(tool_results[i])
    /\ pc = "raised"


\* the generation calls the handlers made
ToolCalls == SelectSeq(llm_calls, IsToolCall)

\* C13: whatever profile fields are absent or null, every handler that is
\* invoked builds its prompt without raising and reaches its generation
\* call; an outcome is an "Error: ..." entry only when that call failed.
C13_HandlersTolerateIncompleteProfiles ==
    /\ RaisingRuns = {}
    /\ Len(ToolCalls) = Len(invoked)
    /\ \A i \in 1..Len(tool_results) :
         IsErrorEntry(tool_results[i]) =>
            (i <= Len(ToolCalls) /\ ToolCalls[i].kind = invoked[i] /\ ~ToolCalls[i].ok)


\* C14: no step of a turn, whatever the decision, whichever handlers succeed
\* or fail and whichever reply path is taken, changes the profile or the
\* conversation history.
C14_ReadOnlyInputs ==
    [][user_data' = user_data /\ conversation_history' = conversation_history]_vars

\* C14 witness: over a history of several messages a turn ran two handlers,
\* of which one failed, and returned the synthesis
C14_Witness ==
    /\ pc = "done"
    /\ Len(conversation_history) > 1
    /\ LastCall.kind = "synthesis"
    /\ \E i, j \in 1..Len(tool_results) :
         IsErrorEntry(tool_results[i]) /\ ~IsErrorEntry(tool_results[j])


\* the 1-based position of the "}" that closes the brace span open at depth
\* `depth` when the scan is at position i, or 0 when the text ends first
RECURSIVE BalancedEnd(_, _, _)
BalancedEnd(text, i, depth) ==
    IF i > Len(text) THEN 0
    ELSE IF CharAt(text, i) = "{" THEN BalancedEnd(text, i + 1, depth + 1)
    ELSE IF CharAt(text, i) = "}"
         THEN IF depth = 1 THEN i ELSE BalancedEnd(text, i + 1, depth - 1)
    ELSE BalancedEnd(text, i + 1, depth)

HasBalancedSpan(text) ==
    Find(text, "{") # -1 /\ BalancedEnd(text, Find(text, "{") + 2, 1) # 0

\* the text from the first "{" to the "}" that balances it
FirstBalancedSpan(text) ==
    SubSeq(text, Find(text, "{") + 1, BalancedEnd(text, Find(text, "{") + 2, 1))

\* the first balanced span of the response is a decision object: it parses
\* as an object whose "tools" is a list
FirstSpanIsDecision(text) ==
    /\ HasBalancedSpan(text)
    /\ LET r == JsonLoads(FirstBalancedSpan(text))
       IN  /\ r.ok
           /\ r.val.t = "dict"
           /\ DictGet(r.val, "tools", JNull).t = "list"

\* C15: when the first balanced {...} span of the coordinator's response is
\* a decision object, the tool list of the turn is that object's tool list,
\* whatever text with braces follows the span.
C15_FirstBalancedSpan ==
    (CoordinatorAnswered /\ FirstSpanIsDecision(response)) =>
        tools_to_use = DictGet(JsonLoads(FirstBalancedSpan(response)).val, "tools", JNull)


(***************************************************************************)
(* Further properties of the mining (specification SpecMine).              *)
(***************************************************************************)

\* the n most recent user-authored messages of the history
RecentUserMessages(n) ==
    LET mine == SelectSeq(conversation_history, ByUser)
    IN  IF Len(mine) > n THEN SubSeq(mine, Len(mine) - n + 1, Len(mine)) ELSE mine

\* C16: the windows count user-authored messages: a liking stated without
\* negation or a dislike in one of the 10 most recent user messages is in
\* the workout prompt, a pain word in one of them is in the injury prompt,
\* and a distress word in one of the 5 most recent user messages makes the
\* sentiment the struggling one, however many other messages are interleaved.
C16_WindowCountsUserMessages ==
    /\ Prompted("create_workout_plan") =>
         \A i \in 1..Len(RecentUserMessages(10)) :
            LET text == TextOf(RecentUserMessages(10)[i])
            IN  /\ \A kw \in LikeKeywords :
                     (~SaysNo(text) /\ SaysYes(text) /\ Contains(text, kw[1])) =>
                        kw[2] \in Prompt.likes_str.parts
                /\ \A kw \in DislikeKeywords :
                     (SaysNo(text) /\ Contains(text, kw[1])) =>
                        kw[2] \in Prompt.dislikes_str.parts
    /\ Prompted("injury_prevention") =>
         \A i \in 1..Len(RecentUserMessages(10)) :
            \A w \in {"pain", "hurt", "sore", "injury", "strain", "ache"} :
                Contains(TextOf(RecentUserMessages(10)[i]), w) =>
                    ("mentioned '" \o w \o "'") \in Prompt.pain_context.parts
    /\ Prompted("give_motivation") =>
         \A i \in 1..Len(RecentUserMessages(5)) :
            HasDistress(TextOf(RecentUserMessages(5)[i])) =>
                Prompt.emotional_context = Struggling


(***************************************************************************)
(* Properties of a chat turn on decisions of any shape (Spec).             *)
(***************************************************************************)

\* the coordinator's response parsed as a JSON object whose "tools" is
\* absent, null, not a list, or a list with an element that is no string
SchemaInvalid ==
    /\ CoordinatorAnswered
    /\ ~Malformed(response)
    /\ coordination.t = "dict"
    /\ LET listed == DictGet(coordination, "tools", JNull)
       IN  \/ listed.t # "list"
           \/ \E i \in 1..Len(listed.l) : listed.l[i].t # "str"

\* C17: on a decision that is a JSON object with a schema-invalid "tools"
\* field no exception reaches the caller of chat other than the failure of
\* the final generation call: the invalid elements are not selected and the
\* turn returns a reply when the final call succeeds.
C17_InvalidDecisionContained ==
    SchemaInvalid =>
        /\ pc = "raised" => FinalCallFailed
        /\ pc = "done" => final_response \in FinalTexts


\* the turn is over: chat returned or raised
TurnEnded == pc \in {"done", "raised"}

DirectCalls == {i \in 1..Len(llm_calls) : llm_calls[i].kind = "direct"}
SynthesisCalls == {i \in 1..Len(llm_calls) : llm_calls[i].kind = "synthesis"}

\* C18: once the coordinator gave its decision, a turn whose decision
\* selects at least one registered tool never makes the direct call and
\* never ends without having made the synthesis call, even when every
\* handler failed; and a turn whose decision selects no registered tool
\* ends through the direct call.
C18_FailuresRouteToSynthesis ==
    CoordinatorAnswered =>
        /\ Selected # <<>> =>
             /\ DirectCalls = {}
             /\ TurnEnded => SynthesisCalls # {}
        /\ Selected = <<>> =>
             /\ SynthesisCalls = {}
             /\ TurnEnded => DirectCalls # {}


\* the user messages of the history that hold at least one workout word
WorkoutMessages ==
    {i \in 1..Len(conversation_history) :
        /\ ByUser(conversation_history[i])
        /\ \E w \in {"workout", "exercise", "ran", "lifted", "trained"} :
              Contains(TextOf(conversation_history[i]), w)}

\* the fatigue and improvement hits of the user messages of the history
FatigueHits ==
    {i \in 1..Len(conversation_history) :
        /\ ByUser(conversation_history[i])
        /\ \E w \in {"tired", "sore"} : Contains(TextOf(conversation_history[i]), w)}
ImprovementHits ==
    {i \in 1..Len(conversation_history) :
        /\ ByUser(conversation_history[i])
        /\ \E w \in {"easier", "better"} : Contains(TextOf(conversation_history[i]), w)}

Observations ==
    {"User mentioned physical fatigue (good sign of activity)", "User noted improvement"}

\* C19: over the whole history the workout-mention count of the progress
\* prompt is the number of user messages holding at least one workout word
\* (once per message, never an assistant's), and the prompt reports as many
\* observations as there are fatigue and improvement hits, up to 3.
C19_ProgressCounts ==
    Prompted("analyze_progress") =>
        LET hits == Cardinality(FatigueHits) + Cardinality(ImprovementHits)
        IN  \E obs \in UNION {[1..k -> Observations] : k \in 0..3} :
                /\ Len(obs) = IF hits > 3 THEN 3 ELSE hits
                /\ Prompt.progress_summary =
                      ToString(Cardinality(WorkoutMessages)) \o " workout mentions; "
                      \o Join(obs, "; ")

\* C19 witness: the assistant named a workout, the user reported twice or
\* more, each report with several workout words: more than 3 hits, and the
\* count is the number of reports
C19_Witness ==
    /\ Prompted("analyze_progress")
    /\ \E i \in 1..Len(conversation_history) :
          /\ ~ByUser(conversation_history[i])
          /\ Contains(TextOf(conversation_history[i]), "workout")
    /\ Cardinality(FatigueHits) + Cardinality(ImprovementHits) > 3
    /\ \E i \in WorkoutMessages :
          /\ Contains(TextOf(conversation_history[i]), "ran")
          /\ Contains(TextOf(conversation_history[i]), "lifted")
    /\ Cardinality(WorkoutMessages) >= 2
    /\ Cardinality(WorkoutMessages) < Len(conversation_history)


(***************************************************************************)
(* The order of the generation calls of a turn (Spec).                     *)
(***************************************************************************)

\* C20: in a turn that returned a reply the first generation call is the
\* coordinator's, the last one is the one final call (synthesis or direct),
\* the calls between them are those of the handlers invoked, one per
\* invocation and in invocation order: 1 + invocations + 1 calls in all.
C20_CallOrdering ==
    pc = "done" =>
        /\ Len(llm_calls) = 1 + Len(invoked) + 1
        /\ llm_calls[1].kind = "coordinator"
        /\ LastCall.kind \in {"synthesis", "direct"}
        /\ \A i \in 1..(Len(llm_calls) - 1) : llm_calls[i].kind \notin {"synthesis", "direct"}
        /\ \A i \in 1..Len(invoked) :
             (i + 1 < Len(llm_calls)) => llm_calls[i + 1].kind = invoked[i]


\* C21: over the whole window the like tags and the dislike tags of the
\* workout prompt are disjoint: no activity tag is in both, also when one
\* user message states the liking and another one negates it.
C21_LikesDislikesDisjoint ==
    Prompted("create_workout_plan") =>
        Prompt.likes_str.parts \cap Prompt.dislikes_str.parts = {}

=============================================================================
